---- MODULE Spec2Model ----
(***************************************************************************)
(* Model of the request-handling layer of src/server/server.js: the        *)
(* Express routes, the two counting/logging middlewares, the Mongoose      *)
(* connection state and the four collections.  Every await of a handler    *)
(* is one action, so requests in flight interleave at exactly the points   *)
(* where the event loop can switch between them.  The browser client's     *)
(* base-URL resolution (src/client/src/config/api.js) is modelled beside   *)
(* it.                                                                     *)
(***************************************************************************)
EXTENDS Integers, Sequences, FiniteSets, TLC

VARIABLES
    conn,           \* life of mongoose.connection (readyState is derived from it)
    users,          \* the User collection, in insertion order
    appointments,   \* the Appointment collection
    records,        \* the MedicalRecord collection
    billings,       \* the Billing collection
    requestCount,   \* global.requestCount (0 stands for "not yet set")
    pc,             \* per request: the await it is suspended at
    req,            \* per request: method+path and parsed JSON body
    local,          \* per request: the handler's local variables
    res,            \* per request: the responses sent so far, in order
    ops,            \* per request: the store / hasher calls issued so far, in order
    console,        \* per request: what the handler wrote to the console
    client          \* the browser client's configuration inputs and its API_BASE_URL

vars == <<conn, users, appointments, records, billings, requestCount,
          pc, req, local, res, ops, console, client>>

-----------------------------------------------------------------------------
(* Bounds of the model *)

\* requests per behaviour of the all-routes specification
MaxRequests == 2
\* signup requests racing in the concurrent-signup specification
MaxSignups == 2
\* requests of the one-at-a-time signup specification
MaxSequential == 3
\* requests of the signup-then-login specification
MaxAuth == 3

-----------------------------------------------------------------------------
(* Values *)

\* a field that is absent from the JSON body (JavaScript undefined)
Undefined == "<undefined>"

Usernames == {"bob", "amy"}
Emails == {"bob@x.com", "amy@x.com", "admin"}
Passwords == {"pw123456", "admin123"}
Salts == {"salt1", "salt2"}

\* JavaScript truthiness of a string-or-undefined body field
Truthy(v) == v # Undefined /\ v # ""

\* option type: <<>> is null, <<d>> is the document d
Null == <<>>
Some(d) == <<d>>

-----------------------------------------------------------------------------
(* mongoose.connection *)

\* mongoose.connection.readyState: 0 disconnected, 1 connected, 2 connecting
ReadyState ==
    CASE conn = "connecting" -> 2
      [] conn = "connected"  -> 1
      [] OTHER               -> 0

\* a buffered operation runs once the connection is up
StoreReachable == ReadyState = 1

\* a buffered operation times out while the connection is not up
StoreTimesOut == ReadyState # 1

-----------------------------------------------------------------------------
(* Errors a handler can catch *)

NoError == [name |-> "", code |-> 0, keyValue |-> <<>>, paths |-> {}]
\* E11000: the store names the field of the violated unique index
DuplicateKeyError(field) ==
    [name |-> "MongoServerError", code |-> 11000, keyValue |-> <<field>>, paths |-> {}]
\* buffering / server selection timed out: no code property
StoreUnavailableError ==
    [name |-> "MongooseError", code |-> 0, keyValue |-> <<>>, paths |-> {}]
\* bcryptjs rejects a non-string argument
IllegalArgumentsError ==
    [name |-> "Error", code |-> 0, keyValue |-> <<>>, paths |-> {}]
\* document.save() rejects: required paths missing or values that do not cast
ValidationError(paths) ==
    [name |-> "ValidationError", code |-> 0, keyValue |-> <<>>, paths |-> paths]

\* res.json(...) of a caught error: JSON.stringify keeps an error's own
\* enumerable properties (never message or stack of a plain Error), and
\* Mongoose's ValidationError has a toJSON that adds name, message and the
\* per-path errors
JsonError(error) ==
    CASE error.name = "ValidationError" ->
             [name |-> "ValidationError", message |-> "Validation failed",
              errors |-> error.paths]
      [] error.code = 11000 ->
             [code |-> 11000, keyValue |-> error.keyValue]
      [] OTHER -> [f \in {} |-> ""]

-----------------------------------------------------------------------------
(* bcryptjs *)

\* the work factor passed to bcrypt.hash
BcryptCost_Weak == 10 - 6
BcryptCost == 10

\* bcrypt.hash(s, cost) with the generated salt made explicit
BcryptHash(plain, cost, salt) ==
    [alg |-> "$2a$", cost |-> cost, salt |-> salt, digest |-> <<salt, cost, plain>>]

\* bcrypt.compare(s, hash): re-hash s with the salt and cost read from hash
BcryptCompare(plain, hash) ==
    BcryptHash(plain, hash.cost, hash.salt) = hash

-----------------------------------------------------------------------------
(* The User collection *)

\* userSchema: the fields carrying unique: true
UserUniqueIndexes_NoUsername == {"email"}
UserUniqueIndexes_NoEmail == {"username"}
UserUniqueIndexes == {"username", "email"}

\* generated _id of the n-th document inserted into a collection
ObjectId(n) == <<"oid", n>>

\* Model.findOne({field: value}): the first match in natural order, or null
FindOne(coll, field, value) ==
    IF \E i \in 1..Len(coll) : coll[i][field] = value
    THEN Some(coll[CHOOSE i \in 1..Len(coll) :
                     /\ coll[i][field] = value
                     /\ \A j \in 1..(i-1) : coll[j][field] # value])
    ELSE Null

\* the unique indexes an insert of doc would violate
Violated(coll, doc) ==
    {f \in UserUniqueIndexes : \E i \in 1..Len(coll) : coll[i][f] = doc[f]}

\* new User({username, email, password})
NewUser_EmailAsUsername(username, email, password) ==
    [username |-> email, email |-> email, password |-> password]
NewUser(username, email, password) ==
    [username |-> username, email |-> email, password |-> password]

\* the document as stored: its fields, the generated _id and the version key
Stored(coll, doc) ==
    [f \in DOMAIN doc \cup {"_id", "__v"} |->
        IF f = "_id" THEN ObjectId(Len(coll) + 1)
        ELSE IF f = "__v" THEN 0
        ELSE doc[f]]

\* Model.find({}, 'username email'): the named fields, and _id as always
Project(doc, fields) ==
    [f \in (fields \cup {"_id"}) \cap DOMAIN doc |-> doc[f]]

\* the sequence coll with op applied to each document
RECURSIVE ProjectAll(_, _)
ProjectAll(coll, fields) ==
    IF coll = <<>> THEN <<>>
    ELSE <<Project(Head(coll), fields)>> \o ProjectAll(Tail(coll), fields)

-----------------------------------------------------------------------------
(* Requests and responses *)

Reqs == DOMAIN pc

NoRequest == [route |-> "", body |-> [none |-> TRUE]]

NoLocals ==
    [existingEmailUser |-> Null, existingUsernameUser |-> Null,
     hashedPassword |-> Null, user |-> Null, doc |-> Null, error |-> NoError]

\* requests arrive in the order of their numbers
CanArrive(r) ==
    /\ pc[r] = "idle"
    /\ \A q \in Reqs : q < r => pc[q] # "idle"

InFlight(r) == pc[r] \notin {"idle", "done"}

\* res.status(s).json(b)
Send(r, status, body) ==
    res' = [res EXCEPT ![r] = Append(@, [status |-> status, body |-> body])]

\* the call r issues now, appended to what it issued before
Issue(r, op) == ops' = [ops EXCEPT ![r] = Append(@, op)]

\* console.log / console.error
Log(r, tag, data) ==
    console' = [console EXCEPT ![r] = Append(@, [tag |-> tag, data |-> data])]

\* app.use((req, res, next) => { global.requestCount = (global.requestCount || 0) + 1 })
CountRequest_FromZero == requestCount' = 0 + 1
CountRequest == requestCount' = requestCount + 1

-----------------------------------------------------------------------------
(* POST /api/signup *)

SignupMissingField_PasswordUnchecked(body) ==
    ~Truthy(body.username) \/ ~Truthy(body.email)
\* !username || !email || !password
SignupMissingField(body) ==
    ~Truthy(body.username) \/ ~Truthy(body.email) \/ ~Truthy(body.password)

MsgAllFieldsRequired == "All fields are required"
MsgEmailInUse == "Email already in use"
MsgUsernameTaken == "Username already taken"
MsgRegistered == "User registered successfully!"
MsgSignupError == "Error registering user. Please try again."

\* `${field} already exists`
AlreadyExists(field) ==
    CASE field = "_id"   -> "_id already exists"
      [] field = "phone" -> "phone already exists"
      [] OTHER           -> "<field> already exists"

\* the catch block's choice of answer for a caught error
SignupCatch_AlwaysBadRequest(error) ==
    IF error.code = 11000
    THEN [status |-> 400, body |-> [message |-> MsgUsernameTaken]]
    ELSE [status |-> 400, body |-> [message |-> MsgSignupError]]
SignupCatch_DuplicateAs500(error) ==
    [status |-> 500, body |-> [message |-> MsgSignupError]]
SignupCatch(error) ==
    IF error.code = 11000
    THEN LET field == Head(error.keyValue)
         IN  IF field = "username"
             THEN [status |-> 400, body |-> [message |-> MsgUsernameTaken]]
             ELSE IF field = "email"
             THEN [status |-> 400, body |-> [message |-> MsgEmailInUse]]
             ELSE [status |-> 400, body |-> [message |-> AlreadyExists(field)]]
    ELSE [status |-> 500, body |-> [message |-> MsgSignupError]]

\* catch (error) { console.error(...); respond }
SignupFail(r, error) ==
    /\ local' = [local EXCEPT ![r].error = error]
    /\ Log(r, "Error during signup:", error)
    /\ Send(r, SignupCatch(error).status, SignupCatch(error).body)
    /\ pc' = [pc EXCEPT ![r] = "done"]

\* the field of the first uniqueness read: User.findOne({ email })
SignupFirstLookup_Username == "username"
SignupFirstLookup == "email"
\* the field of the second uniqueness read: User.findOne({ username })
SignupSecondLookup == "username"

\* the answer when the uniqueness read on `field` finds an Account
SignupTakenResponse_Swapped(field) ==
    IF field = "email"
    THEN [status |-> 400, body |-> [message |-> MsgUsernameTaken]]
    ELSE [status |-> 400, body |-> [message |-> MsgEmailInUse]]
SignupTakenResponse(field) ==
    IF field = "email"
    THEN [status |-> 400, body |-> [message |-> MsgEmailInUse]]
    ELSE [status |-> 400, body |-> [message |-> MsgUsernameTaken]]

\* the name under which a findOne on `field` is recorded in ops
FindOneOp(field) == IF field = "email" THEN "findOne:email" ELSE "findOne:username"

\* the request arrives; the handler runs up to its first await
SignupArrive(r, body) ==
    /\ CanArrive(r)
    /\ req' = [req EXCEPT ![r] = [route |-> "POST /api/signup", body |-> body]]
    /\ CountRequest
    /\ Log(r, "Incoming signup request:", body)
    /\ IF SignupMissingField(body)
       THEN /\ Send(r, 400, [message |-> MsgAllFieldsRequired])
            /\ pc' = [pc EXCEPT ![r] = "done"]
            /\ UNCHANGED ops
       ELSE /\ Issue(r, FindOneOp(SignupFirstLookup))
            /\ pc' = [pc EXCEPT ![r] = "signup:findEmail"]
            /\ UNCHANGED res
    /\ UNCHANGED <<conn, users, appointments, records, billings, local>>
    /\ UNCHANGED client

\* await User.findOne({ email }) settles
SignupEmailLookup(r) ==
    /\ pc[r] = "signup:findEmail"
    /\ \/ /\ StoreReachable
          /\ LET found == FindOne(users, SignupFirstLookup, req[r].body[SignupFirstLookup])
                 taken == SignupTakenResponse(SignupFirstLookup)
             IN  /\ local' = [local EXCEPT ![r].existingEmailUser = found]
                 /\ IF found # Null
                    THEN /\ Send(r, taken.status, taken.body)
                         /\ pc' = [pc EXCEPT ![r] = "done"]
                         /\ UNCHANGED ops
                    ELSE /\ Issue(r, FindOneOp(SignupSecondLookup))
                         /\ pc' = [pc EXCEPT ![r] = "signup:findUsername"]
                         /\ UNCHANGED res
          /\ UNCHANGED console
       \/ /\ StoreTimesOut
          /\ SignupFail(r, StoreUnavailableError)
          /\ UNCHANGED ops
    /\ UNCHANGED <<conn, users, appointments, records, billings, requestCount, req>>
    /\ UNCHANGED client

\* await User.findOne({ username }) settles
SignupUsernameLookup(r) ==
    /\ pc[r] = "signup:findUsername"
    /\ \/ /\ StoreReachable
          /\ LET found == FindOne(users, SignupSecondLookup, req[r].body[SignupSecondLookup])
                 taken == SignupTakenResponse(SignupSecondLookup)
             IN  /\ local' = [local EXCEPT ![r].existingUsernameUser = found]
                 /\ IF found # Null
                    THEN /\ Send(r, taken.status, taken.body)
                         /\ pc' = [pc EXCEPT ![r] = "done"]
                         /\ UNCHANGED ops
                    ELSE /\ Issue(r, "bcrypt.hash")
                         /\ pc' = [pc EXCEPT ![r] = "signup:hash"]
                         /\ UNCHANGED res
          /\ UNCHANGED console
       \/ /\ StoreTimesOut
          /\ SignupFail(r, StoreUnavailableError)
          /\ UNCHANGED ops
    /\ UNCHANGED <<conn, users, appointments, records, billings, requestCount, req>>
    /\ UNCHANGED client

\* await bcrypt.hash(password, 10) settles; new User(...); user.save() is issued
SignupHash(r) ==
    /\ pc[r] = "signup:hash"
    /\ \E salt \in Salts :
          local' = [local EXCEPT ![r].hashedPassword =
                       Some(BcryptHash(req[r].body.password, BcryptCost, salt))]
    /\ Issue(r, "save")
    /\ pc' = [pc EXCEPT ![r] = "signup:save"]
    /\ UNCHANGED <<conn, users, appointments, records, billings, requestCount,
                   req, res, console>>
    /\ UNCHANGED client

\* await user.save() settles
SignupSave(r) ==
    /\ pc[r] = "signup:save"
    /\ LET user == NewUser(req[r].body.username, req[r].body.email,
                           Head(local[r].hashedPassword))
       IN  \/ /\ StoreReachable
              /\ Violated(users, user) = {}
              /\ users' = Append(users, Stored(users, user))
              /\ Send(r, 201, [message |-> MsgRegistered])
              /\ pc' = [pc EXCEPT ![r] = "done"]
              /\ UNCHANGED <<local, console>>
           \/ /\ StoreReachable
              /\ \E f \in Violated(users, user) : SignupFail(r, DuplicateKeyError(f))
              /\ UNCHANGED users
           \/ /\ StoreTimesOut
              /\ SignupFail(r, StoreUnavailableError)
              /\ UNCHANGED users
    /\ UNCHANGED <<conn, appointments, records, billings, requestCount, req, ops>>
    /\ UNCHANGED client

-----------------------------------------------------------------------------
(* POST /api/login *)

IsAdminLogin_WrongLiteral(body) == body.email = "admin" /\ body.password = "admin"
\* email === 'admin' && password === 'admin123'
IsAdminLogin(body) == body.email = "admin" /\ body.password = "admin123"

MsgAdminLogin == "Admin login successful"
MsgLogin == "Login successful"
MsgInvalidLogin == "Invalid email or password"
MsgLoginError == "Error logging in"

\* return res.status(401).json(...) when findOne gave null
LoginNoUserResponse_UserNotFound ==
    [status |-> 401, body |-> [message |-> "User not found"]]
LoginNoUserResponse ==
    [status |-> 401, body |-> [message |-> MsgInvalidLogin]]

\* the answer chosen from isPasswordValid
LoginVerdict_Inverted(isPasswordValid) ==
    IF ~isPasswordValid
    THEN [status |-> 200, body |-> [message |-> MsgLogin]]
    ELSE [status |-> 401, body |-> [message |-> MsgInvalidLogin]]
LoginVerdict(isPasswordValid) ==
    IF isPasswordValid
    THEN [status |-> 200, body |-> [message |-> MsgLogin]]
    ELSE [status |-> 401, body |-> [message |-> MsgInvalidLogin]]

\* catch (error) { res.status(500).json({ message, error }) }
LoginFail(r, error) ==
    /\ local' = [local EXCEPT ![r].error = error]
    /\ Send(r, 500, [message |-> MsgLoginError, error |-> JsonError(error)])
    /\ pc' = [pc EXCEPT ![r] = "done"]

\* the request arrives; the handler runs up to its first await
LoginArrive(r, body) ==
    /\ CanArrive(r)
    /\ req' = [req EXCEPT ![r] = [route |-> "POST /api/login", body |-> body]]
    /\ CountRequest
    /\ IF IsAdminLogin(body)
       THEN /\ Send(r, 200, [message |-> MsgAdminLogin, redirectTo |-> "/admin"])
            /\ pc' = [pc EXCEPT ![r] = "done"]
            /\ UNCHANGED ops
       ELSE /\ Issue(r, "findOne:email")
            /\ pc' = [pc EXCEPT ![r] = "login:findOne"]
            /\ UNCHANGED res
    /\ UNCHANGED <<conn, users, appointments, records, billings, local, console>>
    /\ UNCHANGED client

\* await User.findOne({ email }) settles
LoginLookup(r) ==
    /\ pc[r] = "login:findOne"
    /\ \/ /\ StoreReachable
          /\ LET found == FindOne(users, "email", req[r].body.email)
             IN  /\ local' = [local EXCEPT ![r].user = found]
                 /\ IF found = Null
                    THEN /\ Send(r, LoginNoUserResponse.status, LoginNoUserResponse.body)
                         /\ pc' = [pc EXCEPT ![r] = "done"]
                         /\ UNCHANGED ops
                    ELSE /\ Issue(r, "bcrypt.compare")
                         /\ pc' = [pc EXCEPT ![r] = "login:compare"]
                         /\ UNCHANGED res
       \/ /\ StoreTimesOut
          /\ LoginFail(r, StoreUnavailableError)
          /\ UNCHANGED ops
    /\ UNCHANGED <<conn, users, appointments, records, billings, requestCount,
                   req, console>>
    /\ UNCHANGED client

\* await bcrypt.compare(password, user.password) settles
LoginCompare(r) ==
    /\ pc[r] = "login:compare"
    /\ IF req[r].body.password = Undefined
       THEN LoginFail(r, IllegalArgumentsError)
       ELSE LET verdict == LoginVerdict(BcryptCompare(req[r].body.password,
                                                      Head(local[r].user).password))
            IN  /\ Send(r, verdict.status, verdict.body)
                /\ pc' = [pc EXCEPT ![r] = "done"]
                /\ UNCHANGED local
    /\ UNCHANGED <<conn, users, appointments, records, billings, requestCount,
                   req, ops, console>>
    /\ UNCHANGED client

-----------------------------------------------------------------------------
(* GET /api/users *)

UserProjection_UsernameOnly == {"username"}
UserProjection_Everything == {"username", "email", "password", "__v"}
\* 'username email'
UserProjection == {"username", "email"}

UsersArrive(r) ==
    /\ CanArrive(r)
    /\ req' = [req EXCEPT ![r] = [route |-> "GET /api/users", body |-> [none |-> TRUE]]]
    /\ CountRequest
    /\ Issue(r, "find:users")
    /\ pc' = [pc EXCEPT ![r] = "users:find"]
    /\ UNCHANGED <<conn, users, appointments, records, billings, local, res, console>>
    /\ UNCHANGED client

\* await User.find({}, 'username email') settles
UsersFind(r) ==
    /\ pc[r] = "users:find"
    /\ \/ /\ StoreReachable
          /\ Send(r, 200, [array |-> ProjectAll(users, UserProjection)])
          /\ UNCHANGED local
       \/ /\ StoreTimesOut
          /\ local' = [local EXCEPT ![r].error = StoreUnavailableError]
          /\ Send(r, 500, [message |-> "Error fetching users",
                           error |-> JsonError(StoreUnavailableError)])
    /\ pc' = [pc EXCEPT ![r] = "done"]
    /\ UNCHANGED <<conn, users, appointments, records, billings, requestCount,
                   req, ops, console>>
    /\ UNCHANGED client

-----------------------------------------------------------------------------
(* Schema casting and validation shared by the create handlers *)

\* SchemaDate cast: an ISO date string becomes a Date, "" becomes null,
\* anything else does not cast
DateCasts(v) == v \in {"2025-01-01", ""}
CastDate(v) ==
    CASE v = "2025-01-01" -> "2025-01-01T00:00:00.000Z"
      [] OTHER            -> Undefined

\* SchemaNumber cast: a numeric string becomes a number, "" becomes null
NumberCasts(v) == v \in {"150", ""}
CastNumber(v) ==
    CASE v = "150" -> 150
      [] OTHER     -> 0

\* the fields of `fields` the body gives a value for
Given(body, fields) == {f \in fields : body[f] # Undefined}

-----------------------------------------------------------------------------
(* GET /api/appointments and POST /api/appointments *)

AppointmentFields ==
    {"patientName", "patientId", "date", "time", "doctor", "reason", "status", "notes"}

\* status: { type: String, default: 'Scheduled' }
AppointmentStatusDefault_Pending == "Pending"
AppointmentStatusDefault == "Scheduled"

\* appointmentSchema: required paths that are missing, paths that do not cast
AppointmentInvalidPaths_NameOptional(body) ==
    {f \in {"date"} : ~Truthy(body[f]) \/ ~DateCasts(body[f])}
AppointmentInvalidPaths(body) ==
    {f \in {"patientName"} : ~Truthy(body[f])}
        \cup {f \in {"date"} : ~Truthy(body[f]) \/ ~DateCasts(body[f])}

\* new Appointment({...}): given fields cast, status defaulted when not given
NewAppointment(body) ==
    [f \in (Given(body, AppointmentFields) \ {g \in {"date"} : ~Truthy(body[g]) \/ ~DateCasts(body[g])})
            \cup {"status"} |->
        IF f = "status" /\ body.status = Undefined THEN AppointmentStatusDefault
        ELSE IF f = "date" THEN CastDate(body.date)
        ELSE body[f]]

AppointmentsListArrive(r) ==
    /\ CanArrive(r)
    /\ req' = [req EXCEPT ![r] = [route |-> "GET /api/appointments",
                                  body |-> [none |-> TRUE]]]
    /\ CountRequest
    /\ Issue(r, "find:appointments")
    /\ pc' = [pc EXCEPT ![r] = "appointments:find"]
    /\ UNCHANGED <<conn, users, appointments, records, billings, local, res, console>>
    /\ UNCHANGED client

\* await Appointment.find() settles
AppointmentsFind_ScheduledOnly(r) ==
    /\ pc[r] = "appointments:find"
    /\ \/ /\ StoreReachable
          /\ Send(r, 200, [array |-> SelectSeq(appointments,
                                               LAMBDA d : d.status = "Scheduled")])
          /\ UNCHANGED local
       \/ /\ StoreTimesOut
          /\ local' = [local EXCEPT ![r].error = StoreUnavailableError]
          /\ Send(r, 500, [message |-> "Error fetching appointments",
                           error |-> JsonError(StoreUnavailableError)])
    /\ pc' = [pc EXCEPT ![r] = "done"]
    /\ UNCHANGED <<conn, users, appointments, records, billings, requestCount,
                   req, ops, console>>
    /\ UNCHANGED client
AppointmentsFind(r) ==
    /\ pc[r] = "appointments:find"
    /\ \/ /\ StoreReachable
          /\ Send(r, 200, [array |-> appointments])
          /\ UNCHANGED local
       \/ /\ StoreTimesOut
          /\ local' = [local EXCEPT ![r].error = StoreUnavailableError]
          /\ Send(r, 500, [message |-> "Error fetching appointments",
                           error |-> JsonError(StoreUnavailableError)])
    /\ pc' = [pc EXCEPT ![r] = "done"]
    /\ UNCHANGED <<conn, users, appointments, records, billings, requestCount,
                   req, ops, console>>
    /\ UNCHANGED client

\* catch (error) { res.status(400).json({ message, error }) } of a create handler
CreateFail_StoreFailureAs500(r, message, error) ==
    /\ local' = [local EXCEPT ![r].error = error]
    /\ Send(r, IF error.name = "ValidationError" THEN 400 ELSE 500,
            [message |-> message, error |-> JsonError(error)])
    /\ pc' = [pc EXCEPT ![r] = "done"]
CreateFail(r, message, error) ==
    /\ local' = [local EXCEPT ![r].error = error]
    /\ Send(r, 400, [message |-> message, error |-> JsonError(error)])
    /\ pc' = [pc EXCEPT ![r] = "done"]

AppointmentCreateArrive(r, body) ==
    /\ CanArrive(r)
    /\ req' = [req EXCEPT ![r] = [route |-> "POST /api/appointments", body |-> body]]
    /\ CountRequest
    /\ local' = [local EXCEPT ![r].doc = Some(NewAppointment(body))]
    /\ Issue(r, "save")
    /\ pc' = [pc EXCEPT ![r] = "appointments:save"]
    /\ UNCHANGED <<conn, users, appointments, records, billings, res, console>>
    /\ UNCHANGED client

\* await appointment.save() settles
AppointmentSave(r) ==
    /\ pc[r] = "appointments:save"
    /\ LET invalid == AppointmentInvalidPaths(req[r].body)
           saved == Stored(appointments, Head(local[r].doc))
       IN  \/ /\ invalid # {}
              /\ CreateFail(r, "Error creating appointment", ValidationError(invalid))
              /\ UNCHANGED appointments
           \/ /\ invalid = {}
              /\ StoreReachable
              /\ appointments' = Append(appointments, saved)
              /\ local' = [local EXCEPT ![r].doc = Some(saved)]
              /\ Send(r, 201, saved)
              /\ pc' = [pc EXCEPT ![r] = "done"]
           \/ /\ invalid = {}
              /\ StoreTimesOut
              /\ CreateFail(r, "Error creating appointment", StoreUnavailableError)
              /\ UNCHANGED appointments
    /\ UNCHANGED <<conn, users, records, billings, requestCount, req, ops, console>>
    /\ UNCHANGED client

-----------------------------------------------------------------------------
(* POST /api/records *)

MedicalRecordFields ==
    {"patientName", "patientId", "dateOfBirth", "condition", "treatment",
     "medications", "notes"}

\* medicalRecordSchema: required paths that are missing
MedicalRecordInvalidPaths(body) ==
    {f \in {"patientName", "condition"} : ~Truthy(body[f])}

\* new MedicalRecord({...})
NewMedicalRecord(body) ==
    [f \in Given(body, MedicalRecordFields) |-> body[f]]

RecordCreateArrive(r, body) ==
    /\ CanArrive(r)
    /\ req' = [req EXCEPT ![r] = [route |-> "POST /api/records", body |-> body]]
    /\ CountRequest
    /\ local' = [local EXCEPT ![r].doc = Some(NewMedicalRecord(body))]
    /\ Issue(r, "save")
    /\ pc' = [pc EXCEPT ![r] = "records:save"]
    /\ UNCHANGED <<conn, users, appointments, records, billings, res, console>>
    /\ UNCHANGED client

\* await record.save() settles
RecordSave_IntoAppointments(r) ==
    /\ pc[r] = "records:save"
    /\ LET invalid == MedicalRecordInvalidPaths(req[r].body)
           saved == Stored(appointments, Head(local[r].doc))
       IN  \/ /\ invalid # {}
              /\ CreateFail(r, "Error creating medical record", ValidationError(invalid))
              /\ UNCHANGED appointments
           \/ /\ invalid = {}
              /\ StoreReachable
              /\ appointments' = Append(appointments, saved)
              /\ local' = [local EXCEPT ![r].doc = Some(saved)]
              /\ Send(r, 201, saved)
              /\ pc' = [pc EXCEPT ![r] = "done"]
           \/ /\ invalid = {}
              /\ StoreTimesOut
              /\ CreateFail(r, "Error creating medical record", StoreUnavailableError)
              /\ UNCHANGED appointments
    /\ UNCHANGED <<conn, users, records, billings, requestCount, req, ops, console>>
    /\ UNCHANGED client
RecordSave(r) ==
    /\ pc[r] = "records:save"
    /\ LET invalid == MedicalRecordInvalidPaths(req[r].body)
           saved == Stored(records, Head(local[r].doc))
       IN  \/ /\ invalid # {}
              /\ CreateFail(r, "Error creating medical record", ValidationError(invalid))
              /\ UNCHANGED records
           \/ /\ invalid = {}
              /\ StoreReachable
              /\ records' = Append(records, saved)
              /\ local' = [local EXCEPT ![r].doc = Some(saved)]
              /\ Send(r, 201, saved)
              /\ pc' = [pc EXCEPT ![r] = "done"]
           \/ /\ invalid = {}
              /\ StoreTimesOut
              /\ CreateFail(r, "Error creating medical record", StoreUnavailableError)
              /\ UNCHANGED records
    /\ UNCHANGED <<conn, users, appointments, billings, requestCount, req, ops, console>>
    /\ UNCHANGED client

-----------------------------------------------------------------------------
(* POST /api/billings *)

BillingFields ==
    {"patientName", "patientId", "serviceType", "amount", "paymentMethod",
     "insuranceProvider", "insurancePolicyNumber", "billingAddress"}

\* billingSchema: required paths that are missing, paths that do not cast
BillingInvalidPaths(body) ==
    {f \in {"patientName", "paymentMethod"} : ~Truthy(body[f])}
        \cup {f \in {"amount"} : ~Truthy(body[f]) \/ ~NumberCasts(body[f])}

\* new Billing({...}): given fields, amount cast to a number
NewBilling(body) ==
    [f \in Given(body, BillingFields) \ {g \in {"amount"} : ~Truthy(body[g]) \/ ~NumberCasts(body[g])} |->
        IF f = "amount" THEN CastNumber(body.amount) ELSE body[f]]

BillingCreateArrive(r, body) ==
    /\ CanArrive(r)
    /\ req' = [req EXCEPT ![r] = [route |-> "POST /api/billings", body |-> body]]
    /\ CountRequest
    /\ local' = [local EXCEPT ![r].doc = Some(NewBilling(body))]
    /\ Issue(r, "save")
    /\ pc' = [pc EXCEPT ![r] = "billings:save"]
    /\ UNCHANGED <<conn, users, appointments, records, billings, res, console>>
    /\ UNCHANGED client

\* await billing.save() settles
BillingSave(r) ==
    /\ pc[r] = "billings:save"
    /\ LET invalid == BillingInvalidPaths(req[r].body)
           saved == Stored(billings, Head(local[r].doc))
       IN  \/ /\ invalid # {}
              /\ CreateFail(r, "Error creating billing record", ValidationError(invalid))
              /\ UNCHANGED billings
           \/ /\ invalid = {}
              /\ StoreReachable
              /\ billings' = Append(billings, saved)
              /\ local' = [local EXCEPT ![r].doc = Some(saved)]
              /\ Send(r, 201, saved)
              /\ pc' = [pc EXCEPT ![r] = "done"]
           \/ /\ invalid = {}
              /\ StoreTimesOut
              /\ CreateFail(r, "Error creating billing record", StoreUnavailableError)
              /\ UNCHANGED billings
    /\ UNCHANGED <<conn, users, appointments, records, requestCount, req, ops, console>>
    /\ UNCHANGED client

-----------------------------------------------------------------------------
(* GET /, GET /health, GET /metrics: registered before the counter middleware *)

\* app.get('/'): answered at once
RootGet(r) ==
    /\ CanArrive(r)
    /\ req' = [req EXCEPT ![r] = [route |-> "GET /", body |-> [none |-> TRUE]]]
    /\ Send(r, 200, [message |-> "Healthcare Backend Server is running!",
                     status |-> "healthy"])
    /\ pc' = [pc EXCEPT ![r] = "done"]
    /\ UNCHANGED <<conn, users, appointments, records, billings, requestCount,
                   local, ops, console>>
    /\ UNCHANGED client

\* mongoose.connection.readyState === 1 ? 'connected' : 'disconnected'
HealthDatabase_ConnectingIsUp == IF ReadyState >= 1 THEN "connected" ELSE "disconnected"
HealthDatabase == IF ReadyState = 1 THEN "connected" ELSE "disconnected"

\* app.get('/health'): answered at once
HealthGet_503WhenDown(r) ==
    /\ CanArrive(r)
    /\ req' = [req EXCEPT ![r] = [route |-> "GET /health", body |-> [none |-> TRUE]]]
    /\ Send(r, IF ReadyState = 1 THEN 200 ELSE 503,
            [status |-> "healthy", database |-> HealthDatabase])
    /\ pc' = [pc EXCEPT ![r] = "done"]
    /\ UNCHANGED <<conn, users, appointments, records, billings, requestCount,
                   local, ops, console>>
    /\ UNCHANGED client
HealthGet(r) ==
    /\ CanArrive(r)
    /\ req' = [req EXCEPT ![r] = [route |-> "GET /health", body |-> [none |-> TRUE]]]
    /\ Send(r, 200, [status |-> "healthy", database |-> HealthDatabase])
    /\ pc' = [pc EXCEPT ![r] = "done"]
    /\ UNCHANGED <<conn, users, appointments, records, billings, requestCount,
                   local, ops, console>>
    /\ UNCHANGED client

\* app.get('/metrics'): answered at once
MetricsGet(r) ==
    /\ CanArrive(r)
    /\ req' = [req EXCEPT ![r] = [route |-> "GET /metrics", body |-> [none |-> TRUE]]]
    /\ Send(r, 200, [database_status |-> ReadyState, requests_total |-> requestCount])
    /\ pc' = [pc EXCEPT ![r] = "done"]
    /\ UNCHANGED <<conn, users, appointments, records, billings, requestCount,
                   local, ops, console>>
    /\ UNCHANGED client

\* a path no route matches: counted, logged by the last middleware, answered 404
\* by Express, and the 'finish' listener logs the status
Unmatched(r) ==
    /\ CanArrive(r)
    /\ req' = [req EXCEPT ![r] = [route |-> "GET /nowhere", body |-> [none |-> TRUE]]]
    /\ CountRequest
    /\ console' = [console EXCEPT ![r] =
                      @ \o <<[tag |-> "request", data |-> "GET /nowhere"],
                             [tag |-> "finish", data |-> "GET /nowhere - 404"]>>]
    /\ Send(r, 404, [html |-> "Cannot GET /nowhere"])
    /\ pc' = [pc EXCEPT ![r] = "done"]
    /\ UNCHANGED <<conn, users, appointments, records, billings, local, ops>>
    /\ UNCHANGED client

-----------------------------------------------------------------------------
(* mongoose.connect and the driver's connection events *)

\* mongoose.connect(...).then(...)
ConnectOk ==
    /\ conn = "connecting"
    /\ conn' = "connected"
    /\ UNCHANGED <<users, appointments, records, billings, requestCount,
                   pc, req, local, res, ops, console>>
    /\ UNCHANGED client

\* mongoose.connect(...).catch(err => console.error(...)): the process stays up
ConnectFail ==
    /\ conn = "connecting"
    /\ conn' = "failed"
    /\ UNCHANGED <<users, appointments, records, billings, requestCount,
                   pc, req, local, res, ops, console>>
    /\ UNCHANGED client

\* the driver loses an established connection
ConnectionLost ==
    /\ conn = "connected"
    /\ conn' = "lost"
    /\ UNCHANGED <<users, appointments, records, billings, requestCount,
                   pc, req, local, res, ops, console>>
    /\ UNCHANGED client

\* the driver re-establishes a lost connection
Reconnected ==
    /\ conn = "lost"
    /\ conn' = "connected"
    /\ UNCHANGED <<users, appointments, records, billings, requestCount,
                   pc, req, local, res, ops, console>>
    /\ UNCHANGED client

Connection == ConnectOk \/ ConnectFail \/ ConnectionLost \/ Reconnected

-----------------------------------------------------------------------------
(* The browser client: src/client/src/config/api.js *)

\* the page's inputs, API_BASE_URL not yet computed
ClientPage(buildTimeUrl, windowUrl, nodeEnv, hostname) ==
    [REACT_APP_API_BASE_URL |-> buildTimeUrl, windowApiBaseUrl |-> windowUrl,
     NODE_ENV |-> nodeEnv, hostname |-> hostname, API_BASE_URL |-> Null]

\* no page is open
NoClient == ClientPage(Undefined, Undefined, Undefined, "localhost")

\* const getApiBaseUrl = () => { ... }, its four inputs made parameters
getApiBaseUrl(buildTimeUrl, windowUrl, nodeEnv, hostname) ==
    IF Truthy(buildTimeUrl)
    THEN IF buildTimeUrl = "" THEN "" ELSE buildTimeUrl
    ELSE IF Truthy(windowUrl)
    THEN windowUrl
    ELSE IF nodeEnv = "production"
    THEN IF hostname = "localhost" \/ hostname = "127.0.0.1"
         THEN "http://localhost:8080"
         ELSE ""
    ELSE "http://localhost:5002"

\* export const API_BASE_URL = getApiBaseUrl(): the module is evaluated once
ClientLoad ==
    /\ client.API_BASE_URL = Null
    /\ client' = [client EXCEPT !.API_BASE_URL =
                     Some(getApiBaseUrl(client.REACT_APP_API_BASE_URL,
                                        client.windowApiBaseUrl,
                                        client.NODE_ENV, client.hostname))]
    /\ UNCHANGED <<conn, users, appointments, records, billings, requestCount,
                   pc, req, local, res, ops, console>>

-----------------------------------------------------------------------------
(* The state after the module has loaded *)

\* the state after the module has loaded, with n requests still to come
InitWith(n) ==
    /\ conn = "connecting"
    /\ users = <<>>
    /\ appointments = <<>>
    /\ records = <<>>
    /\ billings = <<>>
    /\ requestCount = 0
    /\ pc = [r \in 1..n |-> "idle"]
    /\ req = [r \in 1..n |-> NoRequest]
    /\ local = [r \in 1..n |-> NoLocals]
    /\ res = [r \in 1..n |-> <<>>]
    /\ ops = [r \in 1..n |-> <<>>]
    /\ console = [r \in 1..n |-> <<>>]
    /\ client = NoClient

-----------------------------------------------------------------------------
(* Request bodies the specifications draw from *)

SignupBodies ==
    [username : {"bob", "amy", Undefined},
     email    : {"bob@x.com", "amy@x.com", Undefined},
     password : {"pw123456", "", Undefined}]

AppointmentBody(patientName, date, status) ==
    [patientName |-> patientName, patientId |-> Undefined, date |-> date,
     time |-> Undefined, doctor |-> Undefined, reason |-> Undefined,
     status |-> status, notes |-> Undefined]

AppointmentBodies ==
    {AppointmentBody(n, d, st) :
        n \in {"Jane Doe", Undefined}, d \in {"2025-01-01", "someday"},
        st \in {"Completed", Undefined}}

MedicalRecordBody(patientName, condition) ==
    [patientName |-> patientName, patientId |-> Undefined, dateOfBirth |-> Undefined,
     condition |-> condition, treatment |-> Undefined, medications |-> Undefined,
     notes |-> Undefined]

MedicalRecordBodies ==
    {MedicalRecordBody("Jane Doe", c) : c \in {"flu", Undefined}}

BillingBody(patientName, amount, paymentMethod) ==
    [patientName |-> patientName, patientId |-> Undefined, serviceType |-> Undefined,
     amount |-> amount, paymentMethod |-> paymentMethod,
     insuranceProvider |-> Undefined, insurancePolicyNumber |-> Undefined,
     billingAddress |-> Undefined]

BillingBodies ==
    {BillingBody("Jane Doe", a, "card") : a \in {"150", "lots", Undefined}}

-----------------------------------------------------------------------------
(* Specifications *)

\* all routes, MaxRequests requests in flight together
AllSignupBodies ==
    [username : {"bob", Undefined}, email : {"bob@x.com", "admin"},
     password : {"pw123456"}]
AllLoginBodies ==
    [email : {"bob@x.com", "admin"}, password : {"pw123456", "admin123", Undefined}]

Init == InitWith(MaxRequests)
Next ==
    \/ \E r \in Reqs : \E body \in AllSignupBodies : SignupArrive(r, body)
    \/ \E r \in Reqs : SignupEmailLookup(r)
    \/ \E r \in Reqs : SignupUsernameLookup(r)
    \/ \E r \in Reqs : SignupHash(r)
    \/ \E r \in Reqs : SignupSave(r)
    \/ \E r \in Reqs : \E body \in AllLoginBodies : LoginArrive(r, body)
    \/ \E r \in Reqs : LoginLookup(r)
    \/ \E r \in Reqs : LoginCompare(r)
    \/ \E r \in Reqs : UsersArrive(r)
    \/ \E r \in Reqs : UsersFind(r)
    \/ \E r \in Reqs : AppointmentsListArrive(r)
    \/ \E r \in Reqs : AppointmentsFind(r)
    \/ \E r \in Reqs : \E body \in AppointmentBodies : AppointmentCreateArrive(r, body)
    \/ \E r \in Reqs : AppointmentSave(r)
    \/ \E r \in Reqs : \E body \in MedicalRecordBodies : RecordCreateArrive(r, body)
    \/ \E r \in Reqs : RecordSave(r)
    \/ \E r \in Reqs : \E body \in BillingBodies : BillingCreateArrive(r, body)
    \/ \E r \in Reqs : BillingSave(r)
    \/ \E r \in Reqs : RootGet(r)
    \/ \E r \in Reqs : HealthGet(r)
    \/ \E r \in Reqs : MetricsGet(r)
    \/ \E r \in Reqs : Unmatched(r)
    \/ Connection
Spec == Init /\ [][Next]_vars

\* signup requests racing one another
InitSignup == InitWith(MaxSignups)
NextSignup ==
    \/ \E r \in Reqs : \E body \in SignupBodies : SignupArrive(r, body)
    \/ \E r \in Reqs : SignupEmailLookup(r)
    \/ \E r \in Reqs : SignupUsernameLookup(r)
    \/ \E r \in Reqs : SignupHash(r)
    \/ \E r \in Reqs : SignupSave(r)
    \/ Connection
SpecSignup == InitSignup /\ [][NextSignup]_vars

\* signup requests issued one after another: none arrives while one is in flight
Quiet == \A q \in Reqs : ~InFlight(q)
SequentialSignupBodies ==
    [username : {"bob", "amy", "cat"}, email : {"bob@x.com", "amy@x.com"},
     password : {"pw123456"}]
InitSequential == InitWith(MaxSequential)
NextSequential ==
    \/ \E r \in Reqs : \E body \in SequentialSignupBodies :
          Quiet /\ SignupArrive(r, body)
    \/ \E r \in Reqs : SignupEmailLookup(r)
    \/ \E r \in Reqs : SignupUsernameLookup(r)
    \/ \E r \in Reqs : SignupHash(r)
    \/ \E r \in Reqs : SignupSave(r)
    \/ Connection
SpecSequential == InitSequential /\ [][NextSequential]_vars

\* signups and logins in flight together
AuthSignupBodies ==
    [username : {"bob"}, email : {"bob@x.com"}, password : {"pw123456"}]
AuthLoginBodies ==
    [email : {"bob@x.com", "amy@x.com"}, password : {"pw123456", "admin123", Undefined}]
InitAuth == InitWith(MaxAuth)
NextAuth ==
    \/ \E r \in Reqs : \E body \in AuthSignupBodies : SignupArrive(r, body)
    \/ \E r \in Reqs : SignupEmailLookup(r)
    \/ \E r \in Reqs : SignupUsernameLookup(r)
    \/ \E r \in Reqs : SignupHash(r)
    \/ \E r \in Reqs : SignupSave(r)
    \/ \E r \in Reqs : \E body \in AuthLoginBodies : LoginArrive(r, body)
    \/ \E r \in Reqs : LoginLookup(r)
    \/ \E r \in Reqs : LoginCompare(r)
    \/ Connection
SpecAuth == InitAuth /\ [][NextAuth]_vars

-----------------------------------------------------------------------------
(* A pending user.save() rejected with an arbitrary error: the catch block of
   POST /api/signup as a function of the error it is handed *)

CaughtErrors ==
    {DuplicateKeyError(f) : f \in {"username", "email", "_id", "phone"}}
        \cup {StoreUnavailableError}

\* await user.save() rejects with `error`
SignupSaveRejects(r, error) ==
    /\ pc[r] = "signup:save"
    /\ SignupFail(r, error)
    /\ UNCHANGED <<conn, users, appointments, records, billings, requestCount,
                   req, ops>>
    /\ UNCHANGED client

ValidSignupBodies == [username : Usernames, email : Emails, password : Passwords]

\* one signup that has passed both uniqueness reads and awaits its save
InitCatch ==
    /\ conn = "connected"
    /\ users = <<>>
    /\ appointments = <<>>
    /\ records = <<>>
    /\ billings = <<>>
    /\ requestCount = 1
    /\ pc = [r \in {1} |-> "signup:save"]
    /\ \E body \in ValidSignupBodies :
          /\ req = [r \in {1} |-> [route |-> "POST /api/signup", body |-> body]]
          /\ console = [r \in {1} |->
                           <<[tag |-> "Incoming signup request:", data |-> body]>>]
          /\ \E salt \in Salts :
                local = [r \in {1} |->
                            [NoLocals EXCEPT !.hashedPassword =
                                Some(BcryptHash(body.password, BcryptCost, salt))]]
    /\ res = [r \in {1} |-> <<>>]
    /\ ops = [r \in {1} |->
                 <<"findOne:email", "findOne:username", "bcrypt.hash", "save">>]
    /\ client = NoClient
NextCatch ==
    \/ \E r \in Reqs : \E error \in CaughtErrors : SignupSaveRejects(r, error)
    \/ ConnectionLost
    \/ Reconnected
SpecCatch == InitCatch /\ [][NextCatch]_vars

-----------------------------------------------------------------------------
(* A pending user.save() rejected with any error a store can produce, a
   duplicate-key error that carries no keyValue included *)

\* E11000 as reported without keyValue: error.keyValue is undefined
DuplicateKeyUnreported ==
    [name |-> "MongoServerError", code |-> 11000, keyValue |-> Null, paths |-> {}]

\* await user.save() rejects with an E11000 that has no keyValue: the catch
\* block logs it, Object.keys(error.keyValue) throws a TypeError inside the
\* catch block, the handler's promise rejects and nothing is sent
SignupCatchThrows(r) ==
    /\ pc[r] = "signup:save"
    /\ local' = [local EXCEPT ![r].error = DuplicateKeyUnreported]
    /\ Log(r, "Error during signup:", DuplicateKeyUnreported)
    /\ pc' = [pc EXCEPT ![r] = "unhandled"]
    /\ UNCHANGED <<conn, users, appointments, records, billings, requestCount,
                   req, res, ops, client>>

NextCatchAll ==
    \/ \E r \in Reqs : \E error \in CaughtErrors : SignupSaveRejects(r, error)
    \/ \E r \in Reqs : SignupCatchThrows(r)
    \/ ConnectionLost
    \/ Reconnected
SpecCatchAll == InitCatch /\ [][NextCatchAll]_vars

-----------------------------------------------------------------------------
(* The client module evaluated in a page, for every combination of its inputs *)

BuildTimeUrls == {Undefined, "", "http://api.example.com"}
WindowUrls == {Undefined, "", "http://runtime.example.com"}
NodeEnvs == {Undefined, "development", "test", "production"}
Hostnames == {"localhost", "127.0.0.1", "app.example.com"}

InitClient ==
    /\ conn = "connecting"
    /\ users = <<>>
    /\ appointments = <<>>
    /\ records = <<>>
    /\ billings = <<>>
    /\ requestCount = 0
    /\ pc = <<>>
    /\ req = <<>>
    /\ local = <<>>
    /\ res = <<>>
    /\ ops = <<>>
    /\ console = <<>>
    /\ \E b \in BuildTimeUrls, w \in WindowUrls, n \in NodeEnvs, h \in Hostnames :
          client = ClientPage(b, w, n, h)
NextClient == ClientLoad
SpecClient == InitClient /\ [][NextClient]_vars

-----------------------------------------------------------------------------
(* Vocabulary of the properties *)

Arrived(r) == pc[r] # "idle"
Done(r) == pc[r] = "done"
IsSignup(r) == req[r].route = "POST /api/signup"
IsLogin(r) == req[r].route = "POST /api/login"
ValidSignup(r) == IsSignup(r) /\ ~SignupMissingField(req[r].body)
\* no store operation of r timed out
StoreAnswered(r) == local[r].error # StoreUnavailableError
Answer(r) == res[r][1]
Answered(r, status, message) ==
    res[r] = <<[status |-> status, body |-> [message |-> message]]>>
IsPrefix(s, t) == Len(s) <= Len(t) /\ s = SubSeq(t, 1, Len(s))
AccountsWith(field, value) == {i \in 1..Len(users) : users[i][field] = value}

-----------------------------------------------------------------------------
(* C1: in every reachable state of the User collection, whatever signup
   requests have run and however their steps interleaved, no two stored
   Accounts have the same username and no two have the same email. *)
C1_UniqueAccounts ==
    \A i, j \in 1..Len(users) :
        i # j => /\ users[i].username # users[j].username
                 /\ users[i].email # users[j].email

\* two signups with one email and two usernames both reached their save, and
\* the store turned the second one down
C1_DuplicateEmailRejected ==
    \E r, q \in Reqs :
        /\ r # q
        /\ ValidSignup(r) /\ ValidSignup(q)
        /\ req[r].body.username # req[q].body.username
        /\ local[r].error = DuplicateKeyError("email")
        /\ Answered(q, 201, MsgRegistered)
        /\ Len(users) = 1

(* C2: two valid signups with the same username, neither hit by a store
   timeout, with no other signup storing a matching username or email: once
   both are answered, exactly one has 201 and the other has 400 with a
   conflict message, and the one Account with that username is the one the
   201 request wrote. *)
C2_Competitors(r1, r2) ==
    /\ r1 # r2
    /\ ValidSignup(r1) /\ ValidSignup(r2)
    /\ req[r1].body.username = req[r2].body.username
    /\ Done(r1) /\ Done(r2)
    /\ StoreAnswered(r1) /\ StoreAnswered(r2)
    /\ \A q \in Reqs \ {r1, r2} :
          ValidSignup(q) =>
              /\ req[q].body.username # req[r1].body.username
              /\ req[q].body.email \notin {req[r1].body.email, req[r2].body.email}

C2_OneWinner(w, l) ==
    /\ Answered(w, 201, MsgRegistered)
    /\ Len(res[l]) = 1
    /\ Answer(l).status = 400
    /\ Answer(l).body.message \in {MsgUsernameTaken, MsgEmailInUse}
    /\ \E i \in 1..Len(users) :
          /\ AccountsWith("username", req[w].body.username) = {i}
          /\ users[i].email = req[w].body.email
          /\ users[i].password = Head(local[w].hashedPassword)

\* C2: of two competing same-username signups exactly one gets 201, the other a
\* 400 conflict, and the stored Account is the winner's
C2_ConcurrentSignupOneWins ==
    \A r1, r2 \in Reqs :
        C2_Competitors(r1, r2) => C2_OneWinner(r1, r2) \/ C2_OneWinner(r2, r1)

\* both requests passed both uniqueness reads and issued their save; the store
\* rejected the later write
C2_RaceCaughtByStore ==
    \E r1, r2 \in Reqs :
        /\ C2_Competitors(r1, r2)
        /\ req[r1].body.email # req[r2].body.email
        /\ Len(ops[r1]) = 4 /\ Len(ops[r2]) = 4
        /\ Answered(r1, 201, MsgRegistered)
        /\ local[r2].error = DuplicateKeyError("username")
        /\ Answered(r2, 400, MsgUsernameTaken)

(* C3: no response body of any endpoint has a password field, at the top
   level or in a returned document, and none carries the plaintext password or
   the stored hash of an Account as a value. *)
C3_StringFields ==
    ((AppointmentFields \cup MedicalRecordFields \cup BillingFields) \ {"amount"})
        \cup {"message", "redirectTo", "database", "html", "username", "email"}

C3_AccountPlaintexts ==
    {req[q].body.password :
        q \in {x \in Reqs : IsSignup(x) /\ Len(res[x]) > 0 /\ res[x][1].status = 201}}

C3_StoredHashes == {users[i].password : i \in 1..Len(users)}

C3_Leaks(doc) ==
    \/ "password" \in DOMAIN doc
    \/ \E f \in DOMAIN doc \cap C3_StringFields : doc[f] \in C3_AccountPlaintexts
    \/ \E f \in DOMAIN doc \cap {"error"} : doc[f] \in C3_StoredHashes

\* C3: no response body, and no document in a returned list, leaks a password
C3_NoPasswordInResponses ==
    \A r \in Reqs : \A k \in 1..Len(res[r]) :
        LET body == res[r][k].body
        IN  /\ ~C3_Leaks(body)
            /\ "array" \in DOMAIN body =>
                  \A n \in 1..Len(body.array) : ~C3_Leaks(body.array[n])

\* GET /api/users has answered with a stored Account in the list
C3_AccountListed ==
    \E r \in Reqs :
        /\ req[r].route = "GET /api/users"
        /\ Len(res[r]) = 1
        /\ Answer(r).status = 200
        /\ Len(Answer(r).body.array) = 1
        /\ Answer(r).body.array[1].email = users[1].email

(* C4: a login with email "admin" and password "admin123" is answered as it
   arrives, with 200 and redirectTo "/admin", in every state of the
   connection and of the User collection, and issues no store or hasher
   call. *)
C4_AdminRequest(r) ==
    /\ IsLogin(r)
    /\ req[r].body.email = "admin"
    /\ req[r].body.password = "admin123"

\* C4: the admin login is answered 200 with redirectTo "/admin" on arrival and
\* has issued no call
C4_AdminLoginBypassesStore ==
    \A r \in Reqs :
        C4_AdminRequest(r) =>
            /\ Done(r)
            /\ res[r] = <<[status |-> 200,
                           body |-> [message |-> MsgAdminLogin, redirectTo |-> "/admin"]]>>
            /\ ops[r] = <<>>

\* the admin login was answered while the store was unreachable and held an
\* Account whose email is "admin"
C4_AdminWhileDisconnected ==
    \E r \in Reqs :
        /\ C4_AdminRequest(r)
        /\ Done(r)
        /\ ReadyState = 0
        /\ AccountsWith("email", "admin") # {}

(* C5: a login whose lookup found no Account and a login whose lookup found
   one but whose password does not verify get the same response: 401 with
   the body {message: 'Invalid email or password'} and nothing else. *)
C5_PlainLogin(r) ==
    /\ IsLogin(r)
    /\ ~C4_AdminRequest(r)
    /\ Done(r)
    /\ local[r].error = NoError

C5_NoSuchAccount(r) == C5_PlainLogin(r) /\ local[r].user = Null

C5_WrongPassword(r) ==
    /\ C5_PlainLogin(r)
    /\ local[r].user # Null
    /\ req[r].body.password # Undefined
    /\ ~BcryptCompare(req[r].body.password, Head(local[r].user).password)

\* C5: "no such account" and "wrong password" are answered identically, 401
\* with the one message
C5_SameRefusal ==
    \A r1, r2 \in Reqs :
        C5_NoSuchAccount(r1) /\ C5_WrongPassword(r2) =>
            /\ res[r1] = res[r2]
            /\ Answered(r1, 401, MsgInvalidLogin)

\* one behaviour holds both kinds of refused login
C5_BothRefusals ==
    \E r1, r2 \in Reqs :
        /\ C5_NoSuchAccount(r1)
        /\ req[r1].body.email = "amy@x.com"
        /\ C5_WrongPassword(r2)
        /\ req[r2].body.email = "bob@x.com"

(* C6: a login other than the admin shortcut, whose lookup the store answers:
   if no Account has the given email when the lookup runs it is answered 401
   there and then; otherwise the handler holds that Account and, for a given
   password, answers 200 exactly when the password verifies against the
   Account's stored hash and 401 when it does not.  No such login gets 200 in
   any other way. *)
C6_Lookup(r) ==
    (pc[r] = "login:findOne" /\ pc'[r] # "login:findOne" /\ local'[r].error = NoError) =>
        LET matches == AccountsWith("email", req[r].body.email)
        IN  IF matches = {}
            THEN /\ pc'[r] = "done"
                 /\ res'[r] = <<[status |-> 401, body |-> [message |-> MsgInvalidLogin]]>>
            ELSE /\ pc'[r] = "login:compare"
                 /\ res'[r] = <<>>
                 /\ \E i \in matches : local'[r].user = <<users[i]>>

C6_Compare(r) ==
    (pc[r] = "login:compare" /\ pc'[r] # "login:compare"
        /\ req[r].body.password # Undefined) =>
        LET account == Head(local[r].user)
            verifies == \E salt \in Salts :
                account.password = BcryptHash(req[r].body.password, BcryptCost, salt)
        IN  /\ account \in {users[i] : i \in AccountsWith("email", req[r].body.email)}
            /\ pc'[r] = "done"
            /\ res'[r] = <<[status |-> IF verifies THEN 200 ELSE 401,
                            body |-> [message |-> IF verifies THEN MsgLogin
                                                  ELSE MsgInvalidLogin]]>>

C6_Only200(r) ==
    (IsLogin(r) /\ ~C4_AdminRequest(r) /\ res'[r] # res[r]
        /\ res'[r][Len(res'[r])].status = 200) =>
        pc[r] = "login:compare"

\* C6: every step of a plain login decides 200 / 401 from the Account found at
\* the lookup and the verification of the given password
C6_LoginDecidedByCredentials ==
    [][\A r \in Reqs : C6_Lookup(r) /\ C6_Compare(r) /\ C6_Only200(r)]_vars

\* a login with the stored Account's email and password was answered 200
C6_LoginSucceeded ==
    \E r \in Reqs :
        /\ IsLogin(r)
        /\ req[r].body = [email |-> "bob@x.com", password |-> "pw123456"]
        /\ Answered(r, 200, MsgLogin)
        /\ AccountsWith("email", "bob@x.com") # {}

(* C7: signups issued one after another, none hit by a store timeout: one
   whose username and email were stored by no earlier signup is answered 201
   and its Account is stored; one whose email was stored by an earlier signup
   is answered 400 'Email already in use', whatever its username. *)
C7_Registered(q) == IsSignup(q) /\ Len(res[q]) = 1 /\ Answer(q).status = 201

C7_StoredBefore(r, field) ==
    \E q \in Reqs :
        q < r /\ C7_Registered(q) /\ req[q].body[field] = req[r].body[field]

C7_AccountsAreRegistrations ==
    /\ \A i \in 1..Len(users) :
          \E q \in Reqs :
              /\ C7_Registered(q)
              /\ users[i].username = req[q].body.username
              /\ users[i].email = req[q].body.email
    /\ \A q \in Reqs :
          C7_Registered(q) =>
              \E i \in 1..Len(users) :
                  /\ users[i].username = req[q].body.username
                  /\ users[i].email = req[q].body.email

\* C7: one after another, a new username and email give 201 and a repeated
\* email gives 400 'Email already in use'
C7_SequentialSignups ==
    /\ C7_AccountsAreRegistrations
    /\ \A r \in Reqs :
          (ValidSignup(r) /\ Done(r) /\ StoreAnswered(r)) =>
              /\ C7_StoredBefore(r, "email") => Answered(r, 400, MsgEmailInUse)
              /\ (~C7_StoredBefore(r, "email") /\ ~C7_StoredBefore(r, "username")) =>
                    Answered(r, 201, MsgRegistered)

\* two signups with distinct usernames and emails got 201, and a third with a
\* new username and a repeated email got the email message
C7_ThirdRepeatsEmail ==
    /\ Answered(1, 201, MsgRegistered)
    /\ Answered(2, 201, MsgRegistered)
    /\ req[3].route = "POST /api/signup"
    /\ req[3].body.username \notin {req[1].body.username, req[2].body.username}
    /\ req[3].body.email = req[1].body.email
    /\ Answered(3, 400, MsgEmailInUse)

(* C8: signup issues its calls in the fixed order email lookup, username
   lookup, hash, save.  For signups issued one after another and not hit by a
   store timeout: with the email stored (the username stored or not) only the
   email lookup is issued and the answer is 400 'Email already in use'; with
   only the username stored both lookups are issued and the answer is 400
   'Username already taken'; the hash and the save are issued only when
   neither is stored. *)
C8_Order == <<"findOne:email", "findOne:username", "bcrypt.hash", "save">>

\* C8: calls are issued in the order email lookup, username lookup, hash, save,
\* and the first lookup that hits decides the answer
C8_LookupOrder ==
    \A r \in Reqs :
        IsSignup(r) =>
            /\ IsPrefix(ops[r], C8_Order)
            /\ Len(ops[r]) >= 3 =>
                  ~C7_StoredBefore(r, "email") /\ ~C7_StoredBefore(r, "username")
            /\ (ValidSignup(r) /\ Done(r) /\ StoreAnswered(r)) =>
                  /\ C7_StoredBefore(r, "email") =>
                        /\ Answered(r, 400, MsgEmailInUse)
                        /\ ops[r] = SubSeq(C8_Order, 1, 1)
                  /\ (~C7_StoredBefore(r, "email") /\ C7_StoredBefore(r, "username")) =>
                        /\ Answered(r, 400, MsgUsernameTaken)
                        /\ ops[r] = SubSeq(C8_Order, 1, 2)
                  /\ (~C7_StoredBefore(r, "email") /\ ~C7_StoredBefore(r, "username")) =>
                        ops[r] = C8_Order

\* the email is held by one Account and the username by another: only the
\* email lookup ran
C8_BothTaken ==
    \E r, q1, q2 \in Reqs :
        /\ q1 # q2 /\ q1 < r /\ q2 < r
        /\ C7_Registered(q1) /\ C7_Registered(q2)
        /\ ValidSignup(r)
        /\ req[r].body.email = req[q1].body.email
        /\ req[r].body.username = req[q2].body.username
        /\ Answered(r, 400, MsgEmailInUse)
        /\ ops[r] = <<"findOne:email">>

(* C9: when the save of a signup is rejected with a duplicate-key error, the
   answer is 400 and its message follows the field the error names:
   'Username already taken' for username, 'Email already in use' for email,
   '<field> already exists' for any other field; it is never 500 or 201 and
   no Account is stored. *)
C9_Expected(field) ==
    CASE field = "username" -> "Username already taken"
      [] field = "email"    -> "Email already in use"
      [] field = "_id"      -> "_id already exists"
      [] field = "phone"    -> "phone already exists"

\* C9: a caught duplicate-key error is answered 400 with the message of the
\* field it names
C9_DuplicateKeyMapped ==
    \A r \in Reqs :
        (IsSignup(r) /\ local[r].error.code = 11000) =>
            /\ Done(r)
            /\ Answered(r, 400, C9_Expected(local[r].error.keyValue[1]))
            /\ users = <<>>

\* a duplicate-key error naming a field other than username and email
C9_OtherFieldReported ==
    \E r \in Reqs :
        /\ local[r].error = DuplicateKeyError("_id")
        /\ Answered(r, 400, "_id already exists")

(* C10: a signup whose username, email or password is missing or empty is
   answered 400 'All fields are required' as it arrives, in every state of
   the connection: it never waits on the store or the hasher and has issued
   no call. *)
C10_Missing(body) ==
    \E f \in {"username", "email", "password"} : body[f] \in {Undefined, ""}

\* C10: a signup with a missing or empty field is answered 400 on arrival and
\* has issued no call
C10_MissingFieldRejected ==
    \A r \in Reqs :
        (IsSignup(r) /\ C10_Missing(req[r].body)) =>
            /\ Done(r)
            /\ Answered(r, 400, MsgAllFieldsRequired)
            /\ ops[r] = <<>>

\* a signup lacking only its password was turned down while the store was
\* disconnected and empty
C10_RejectedWhileDisconnected ==
    \E r \in Reqs :
        /\ IsSignup(r)
        /\ req[r].body.username # Undefined
        /\ req[r].body.email # Undefined
        /\ req[r].body.password = Undefined
        /\ Answered(r, 400, MsgAllFieldsRequired)
        /\ ReadyState = 0
        /\ users = <<>>

-----------------------------------------------------------------------------
(* C11: a signup whose store operation (either uniqueness read or the save)
   fails with an error that is not a duplicate-key error is answered 500
   'Error registering user. Please try again.', and it stores no Account:
   the Accounts in the store are exactly those of the signups answered 201. *)
C11_StoreFailure(r) ==
    IsSignup(r) /\ local[r].error # NoError /\ local[r].error.code # 11000

C11_Registered == {r \in Reqs : IsSignup(r) /\ Answered(r, 201, MsgRegistered)}

\* C11: a signup's store failure other than a duplicate key is answered 500
\* and stores no Account
C11_StoreFailureIs500 ==
    /\ \A r \in Reqs :
          C11_StoreFailure(r) =>
              /\ Done(r)
              /\ Answered(r, 500, MsgSignupError)
              /\ r \notin C11_Registered
    /\ Len(users) = Cardinality(C11_Registered)

\* a signup's save timed out after both uniqueness reads were answered; it got
\* the 500 and the store is still empty
C11_SaveTimedOut ==
    \E r \in Reqs :
        /\ IsSignup(r)
        /\ ops[r] = <<"findOne:email", "findOne:username", "bcrypt.hash", "save">>
        /\ local[r].error = StoreUnavailableError
        /\ Answered(r, 500, MsgSignupError)
        /\ users = <<>>

-----------------------------------------------------------------------------
(* C12: in every handler that uses the store (signup, login, GET /api/users,
   GET /api/appointments, and the three create handlers), a pending store
   operation that fails with a connectivity or timeout error is answered
   500. *)
C12_UsesStore ==
    {"POST /api/signup", "POST /api/login", "GET /api/users",
     "GET /api/appointments", "POST /api/appointments", "POST /api/records",
     "POST /api/billings"}

\* C12: a store operation that timed out is answered 500, whatever the handler
C12_StoreTimeoutIs500 ==
    \A r \in Reqs :
        (req[r].route \in C12_UsesStore /\ local[r].error = StoreUnavailableError) =>
            /\ Done(r)
            /\ Len(res[r]) = 1
            /\ Answer(r).status = 500

-----------------------------------------------------------------------------
(* C13: on each of POST /api/appointments, POST /api/records and
   POST /api/billings every failed save, a missing required field as much as
   a store failure, is answered 400 with the entity's fixed message: status
   and message do not tell the two kinds of failure apart. *)
C13_CreateRoutes == {"POST /api/appointments", "POST /api/records", "POST /api/billings"}

C13_Message(route) ==
    CASE route = "POST /api/appointments" -> "Error creating appointment"
      [] route = "POST /api/records"      -> "Error creating medical record"
      [] route = "POST /api/billings"     -> "Error creating billing record"

C13_SaveFailed(r) == req[r].route \in C13_CreateRoutes /\ local[r].error # NoError

\* C13: a create request whose save failed, for whatever reason, is answered
\* 400 with the fixed message of its entity
C13_CreateFailureIs400 ==
    \A r \in Reqs :
        C13_SaveFailed(r) =>
            /\ Done(r)
            /\ Len(res[r]) = 1
            /\ Answer(r).status = 400
            /\ Answer(r).body.message = C13_Message(req[r].route)

\* two requests to the same create endpoint failed, one on validation and one
\* on the store, and got the same status and message
C13_BothKindsAlike ==
    \E r, q \in Reqs :
        /\ C13_SaveFailed(r) /\ C13_SaveFailed(q)
        /\ req[r].route = req[q].route
        /\ local[r].error.name = "ValidationError"
        /\ local[q].error = StoreUnavailableError
        /\ Answer(r).status = Answer(q).status
        /\ Answer(r).body.message = Answer(q).body.message

-----------------------------------------------------------------------------
(* C14: on each create endpoint, a request that carries every required field
   of its entity, sent while the store is reachable, stores exactly one new
   document in the entity's collection and is answered 201 with that
   document, generated identifier included; a request missing a required
   field stores nothing and is answered 400. *)
C14_Required(route) ==
    CASE route = "POST /api/appointments" -> {"patientName", "date"}
      [] route = "POST /api/records"      -> {"patientName", "condition"}
      [] route = "POST /api/billings"     -> {"patientName", "amount", "paymentMethod"}

C14_Collection(route) ==
    CASE route = "POST /api/appointments" -> appointments
      [] route = "POST /api/records"      -> records
      [] route = "POST /api/billings"     -> billings

C14_IsCreate(r) == req[r].route \in C13_CreateRoutes

\* the body gives a value for every required field
C14_CarriesRequired(r) ==
    \A f \in C14_Required(req[r].route) : Truthy(req[r].body[f])

\* the values given for date and amount are a date and a number
C14_WellTyped(r) ==
    /\ req[r].route = "POST /api/appointments" => DateCasts(req[r].body.date)
    /\ req[r].route = "POST /api/billings" => NumberCasts(req[r].body.amount)

\* r was answered 201 with a document that has an identifier and is in the
\* collection exactly once
C14_Created(r) ==
    /\ Len(res[r]) = 1
    /\ Answer(r).status = 201
    /\ "_id" \in DOMAIN Answer(r).body
    /\ LET coll == C14_Collection(req[r].route)
       IN  Cardinality({i \in 1..Len(coll) : coll[i] = Answer(r).body}) = 1

\* r was answered 400
C14_Refused(r) == Len(res[r]) = 1 /\ Answer(r).status = 400

\* every document of a collection was stored by a request answered 201, one each
C14_OnePerCreated ==
    \A route \in C13_CreateRoutes :
        Len(C14_Collection(route)) =
            Cardinality({r \in Reqs : req[r].route = route /\ Done(r)
                                          /\ Answer(r).status = 201})

-----------------------------------------------------------------------------
(* C15: a successful POST /api/appointments whose body gives no status
   stores and returns the appointment with status "Scheduled"; when the body
   gives a status, that status is stored and returned. *)
C15_CreatedAppointment(r) ==
    /\ req[r].route = "POST /api/appointments"
    /\ Done(r)
    /\ Answer(r).status = 201

C15_ExpectedStatus(r) ==
    IF req[r].body.status = Undefined THEN "Scheduled" ELSE req[r].body.status

\* C15: the stored and the returned appointment carry the given status, or
\* "Scheduled" when none was given
C15_StatusDefaulted ==
    \A r \in Reqs :
        C15_CreatedAppointment(r) =>
            /\ Answer(r).body.status = C15_ExpectedStatus(r)
            /\ \E i \in 1..Len(appointments) :
                  /\ appointments[i]["_id"] = Answer(r).body["_id"]
                  /\ appointments[i].status = C15_ExpectedStatus(r)

\* two appointments were created, one without a status and returned as
\* "Scheduled", one with status "Completed" and returned with it
C15_DefaultAndGiven ==
    \E r, q \in Reqs :
        /\ C15_CreatedAppointment(r) /\ C15_CreatedAppointment(q)
        /\ req[r].body.status = Undefined
        /\ Answer(r).body.status = "Scheduled"
        /\ req[q].body.status = "Completed"
        /\ Answer(q).body.status = "Completed"
        /\ Len(appointments) = 2

-----------------------------------------------------------------------------
(* C16: GET /health is answered 200 in every state of the connection, and
   its database field is computed from the connection state at the moment
   of the call: "connected" exactly when the connection is established,
   "disconnected" while it is still connecting, after the initial connection
   failed, and after it was lost. A change of the connection state between
   two calls shows in the second call's answer. *)
C16_HealthCalled(r) ==
    pc[r] = "idle" /\ pc'[r] # "idle" /\ req'[r].route = "GET /health"

C16_DatabaseNow == IF conn = "connected" THEN "connected" ELSE "disconnected"

-----------------------------------------------------------------------------
(* C17: the request counter is incremented on every inbound request,
   whatever its route (/, /health, /metrics, the /api routes, unmatched
   paths): after n requests have come in the counter is n, and the
   requests_total a GET /metrics reports counts every request received
   before it, earlier /health and /metrics calls included. *)
C17_Received == {r \in Reqs : Arrived(r)}

\* requests come in in the order of their numbers: those received before r
C17_ReceivedBefore(r) == {q \in Reqs : q < r}

\* C17: the counter equals the number of requests received, and GET /metrics
\* reports the number of requests received before it
C17_CounterCountsAll ==
    /\ requestCount = Cardinality(C17_Received)
    /\ \A r \in Reqs :
          req[r].route = "GET /metrics" =>
              Answer(r).body.requests_total = Cardinality(C17_ReceivedBefore(r))

-----------------------------------------------------------------------------
(* C18: GET /api/users answered by a reachable store is answered 200 with
   one element per stored Account, all Accounts in the store at the time of
   the read, each element carrying the username and email of its Account
   and no other field. *)

\* the read of r's GET /api/users is answered by the store in this step
C18_ReadAnswered(r) ==
    pc[r] = "users:find" /\ pc'[r] = "done" /\ ReadyState = 1

\* the answer r gets in this step is 200 with one element per Account now in
\* the store, in order, each with exactly the fields `fields` and the values
\* its Account has for them
C18_Lists(r, fields) ==
    /\ Len(res'[r]) = 1
    /\ res'[r][1].status = 200
    /\ DOMAIN res'[r][1].body = {"array"}
    /\ LET listed == res'[r][1].body.array
       IN  /\ Len(listed) = Len(users)
           /\ \A i \in 1..Len(users) :
                 /\ DOMAIN listed[i] = fields
                 /\ \A f \in fields : listed[i][f] = users[i][f]

-----------------------------------------------------------------------------
(* C19: when the initial connection attempt fails the process stays up: the
   connection stays disconnected, requests keep being answered, GET /health
   keeps answering 200, every request that needs the store fails by itself
   with an error response, and the requests that need no store (admin login,
   /health, /metrics) still succeed. *)

\* r issued a store operation
C19_NeedsStore(r) == ops[r] # <<>>

C19_NoStoreRoute(r) ==
    \/ req[r].route \in {"GET /", "GET /health", "GET /metrics"}
    \/ req[r].route = "POST /api/login" /\ IsAdminLogin(req[r].body)

\* what the requests answered so far got, the initial connection having failed
C19_AnswersWhileFailed ==
    \A r \in Reqs :
        Done(r) =>
            /\ Len(res[r]) = 1
            /\ C19_NeedsStore(r) =>
                  /\ Answer(r).status \in {400, 500}
                  /\ "message" \in DOMAIN Answer(r).body
            /\ C19_NoStoreRoute(r) => ~C19_NeedsStore(r) /\ Answer(r).status = 200
            /\ req[r].route = "GET /health" => Answer(r).body.database = "disconnected"

-----------------------------------------------------------------------------
(* C20: no entry written to the log while a signup or a login is handled
   contains the request's plaintext password or the hash derived from it. *)

\* the logged value carries r's plaintext password or r's hash
C20_Exposes(r, data) ==
    \/ /\ "password" \in DOMAIN data
       /\ Truthy(req[r].body.password)
       /\ data.password = req[r].body.password
    \/ \E f \in DOMAIN data \cap {"hashedPassword", "hash"} :
          Some(data[f]) = local[r].hashedPassword

\* C20: nothing logged for a signup or a login carries its password or hash
C20_NoPasswordInLogs ==
    \A r \in Reqs :
        (IsSignup(r) \/ IsLogin(r)) =>
            \A k \in 1..Len(console[r]) : ~C20_Exposes(r, console[r][k].data)

-----------------------------------------------------------------------------
(* C21: every error response (status 400, 401 or 500) of any handler is a
   JSON object with a message field, and it gives the client no stack trace
   and no internal detail of the error the handler caught. *)
C21_IsErrorResponse(response) == response.status \in {400, 401, 500}

\* the body carries nothing of a caught error: no error field, or an empty one
C21_NoErrorDetail(body) ==
    /\ "stack" \notin DOMAIN body
    /\ "error" \in DOMAIN body => DOMAIN body.error = {}

\* C21: an error response has a message and carries no detail of the caught
\* error
C21_ErrorResponsesOpaque ==
    \A r \in Reqs : \A k \in 1..Len(res[r]) :
        C21_IsErrorResponse(res[r][k]) =>
            /\ "message" \in DOMAIN res[r][k].body
            /\ C21_NoErrorDetail(res[r][k].body)

-----------------------------------------------------------------------------
(* C22: every request passes the per-request logging middleware before its
   matched handler runs: for every route, the middleware's request-log entry
   of a request is written before the request's handler starts and before
   its response is sent. *)

\* the first thing written to the log for r is the middleware's entry
C22_RequestLoggedFirst(r) ==
    /\ console[r] # <<>>
    /\ console[r][1].tag = "request"

\* C22: once a request's handler has started, or its response was sent, the
\* logging middleware's entry for it is already in the log
C22_LoggedBeforeHandled ==
    \A r \in Reqs :
        (Arrived(r) \/ res[r] # <<>>) => C22_RequestLoggedFirst(r)

-----------------------------------------------------------------------------
(* C23: getApiBaseUrl resolves the base URL by strict priority: (1) the
   build-time variable REACT_APP_API_BASE_URL whenever it is set, the empty
   string included, which yields ''; (2) otherwise window.API_BASE_URL when
   set; (3) otherwise, in production, 'http://localhost:8080' for hostname
   localhost or 127.0.0.1 and '' for any other hostname; (4) otherwise
   'http://localhost:5002'. *)
C23_ByPriority(page) ==
    IF page.REACT_APP_API_BASE_URL # Undefined
    THEN page.REACT_APP_API_BASE_URL
    ELSE IF Truthy(page.windowApiBaseUrl)
    THEN page.windowApiBaseUrl
    ELSE IF page.NODE_ENV = "production"
    THEN IF page.hostname \in {"localhost", "127.0.0.1"}
         THEN "http://localhost:8080"
         ELSE ""
    ELSE "http://localhost:5002"

\* C23: the API_BASE_URL the client computed is the one the priority order
\* gives, for every combination of the four inputs
C23_BaseUrlByPriority ==
    client.API_BASE_URL # Null => Head(client.API_BASE_URL) = C23_ByPriority(client)

-----------------------------------------------------------------------------
(* C24: every request that reaches a route handler gets exactly one
   response, whatever its store or hashing step returns (success,
   duplicate-key error with or without a field report, any other error,
   timeout): no handler path sends zero or two responses, and no error
   raised in a handler, its catch block included, escapes unhandled. *)

\* the handler of r has run to its end, by returning or by an escaping error
C24_HandlerEnded(r) == pc[r] \in {"done", "unhandled"}

\* C24: no request has two responses, no handler ends without one, and no
\* error escapes a handler
C24_ExactlyOneResponse ==
    \A r \in Reqs :
        /\ Len(res[r]) <= 1
        /\ C24_HandlerEnded(r) => Len(res[r]) = 1
        /\ pc[r] # "unhandled"

-----------------------------------------------------------------------------
(* C25: the request counter never decreases and loses no increment: with
   any number of requests in flight and any interleaving of their steps,
   once k requests have passed the counter middleware the counter is k. *)

\* the routes answered before the counter middleware is reached
C25_BeforeCounter == {"GET /", "GET /health", "GET /metrics"}

\* the requests that have passed the counter middleware
C25_Counted == {r \in Reqs : Arrived(r) /\ req[r].route \notin C25_BeforeCounter}

\* C25: the counter equals the number of requests that passed the counter
\* middleware, and no step decreases it
C25_CounterExact ==
    /\ [](requestCount = Cardinality(C25_Counted))
    /\ [][requestCount' >= requestCount]_vars

\* two requests that passed the counter middleware are both suspended at an
\* await, and the counter is 2
C25_TwoInFlightCounted ==
    \E r, q \in Reqs :
        /\ r # q
        /\ InFlight(r) /\ InFlight(q)
        /\ requestCount = 2

-----------------------------------------------------------------------------
(* C26: the password field of every Account stored by signup is the output
   of the one-way hash of the submitted password with work factor 10, never
   the submitted plaintext; the hash is computed before the save is issued. *)

\* Account i is the one a signup answered 201 submitted, its password hashed
\* with work factor 10 under some salt
C26_HashOfSubmitted(i) ==
    \E r \in Reqs : \E salt \in Salts :
        /\ IsSignup(r)
        /\ Answered(r, 201, MsgRegistered)
        /\ users[i].username = req[r].body.username
        /\ users[i].email = req[r].body.email
        /\ users[i].password = BcryptHash(req[r].body.password, 10, salt)
        /\ BcryptCompare(req[r].body.password, users[i].password)

\* r called the hasher before it issued its save
C26_HashedFirst(r) ==
    \A k \in 1..Len(ops[r]) :
        ops[r][k] = "save" => \E j \in 1..(k - 1) : ops[r][j] = "bcrypt.hash"

\* C26: every stored password is the work-factor-10 hash of the submitted
\* password, computed before the save
C26_StoredPasswordIsHash ==
    /\ \A i \in 1..Len(users) : C26_HashOfSubmitted(i)
    /\ \A r \in Reqs : IsSignup(r) => C26_HashedFirst(r)

\* two Accounts are stored, each with the hash of its own signup's password
C26_TwoHashedAccounts ==
    /\ Len(users) = 2
    /\ \A i \in 1..2 :
          /\ users[i].password.cost = 10
          /\ users[i].password.digest[3] = "pw123456"
          /\ users[i].password.alg = "$2a$"

-----------------------------------------------------------------------------
(* C27: no handler modifies or removes a stored document: every collection
   only grows, a create request adds a document only to the collection of
   its own entity, and login, GET /api/users, GET /api/appointments, /health
   and /metrics leave all four collections unchanged. *)

\* r takes a step of its handler
C27_Steps(r) == pc'[r] # pc[r]

C27_ReadOnlyRoutes ==
    {"POST /api/login", "GET /api/users", "GET /api/appointments", "GET /health",
     "GET /metrics"}

\* the collections a step of a request on `route` may extend
C27_MayGrow(route) ==
    CASE route = "POST /api/signup"       -> {"users"}
      [] route = "POST /api/appointments" -> {"appointments"}
      [] route = "POST /api/records"      -> {"records"}
      [] route = "POST /api/billings"     -> {"billings"}
      [] OTHER                            -> {}

C27_Grows(name) ==
    CASE name = "users"        -> IsPrefix(users, users')
      [] name = "appointments" -> IsPrefix(appointments, appointments')
      [] name = "records"      -> IsPrefix(records, records')
      [] name = "billings"     -> IsPrefix(billings, billings')

C27_Kept(name) ==
    CASE name = "users"        -> users' = users
      [] name = "appointments" -> appointments' = appointments
      [] name = "records"      -> records' = records
      [] name = "billings"     -> billings' = billings

C27_Collections == {"users", "appointments", "records", "billings"}

\* C27: every step keeps the documents already stored, and a request's step
\* changes no collection other than the one its route creates into
C27_CollectionsOnlyGrow ==
    [][/\ \A name \in C27_Collections : C27_Grows(name)
       /\ \A r \in Reqs :
             C27_Steps(r) =>
                 \A name \in C27_Collections \ C27_MayGrow(req'[r].route) :
                     C27_Kept(name)
       /\ \A r \in Reqs :
             (C27_Steps(r) /\ req'[r].route \in C27_ReadOnlyRoutes) =>
                 \A name \in C27_Collections : C27_Kept(name)]_vars

\* a medical record was created and a later GET /api/appointments was
\* answered: the record is the only stored document
C27_RecordThenRead ==
    \E r, q \in Reqs :
        /\ r < q
        /\ req[r].route = "POST /api/records"
        /\ Done(r) /\ Answer(r).status = 201
        /\ req[q].route = "GET /api/appointments"
        /\ Done(q) /\ Answer(q).status = 200
        /\ records = <<Answer(r).body>>
        /\ users = <<>> /\ appointments = <<>> /\ billings = <<>>

-----------------------------------------------------------------------------
(* C28: a signup changes the User collection if and only if it answers 201:
   the step that answers 201 adds exactly one Account, with the request's
   username and email, and its body is the confirmation message alone; a
   signup that answers 400 or 500 leaves the collection as it was. *)

\* r, a signup, is answered `status` in this step
C28_AnsweredNow(r, status) ==
    /\ req'[r].route = "POST /api/signup"
    /\ res[r] = <<>>
    /\ Len(res'[r]) = 1
    /\ res'[r][1].status = status

\* this step adds one Account with r's username and email and changes nothing
\* else of the collection
C28_AddsAccountOf(r) ==
    /\ Len(users') = Len(users) + 1
    /\ IsPrefix(users, users')
    /\ users'[Len(users')].username = req[r].body.username
    /\ users'[Len(users')].email = req[r].body.email

\* C28: the User collection changes exactly in the steps that answer a signup
\* 201, by one Account of that signup, and the 201 carries only the message
C28_ChangedIffCreated ==
    [][/\ \A r \in Reqs :
             /\ C28_AnsweredNow(r, 201) =>
                   /\ C28_AddsAccountOf(r)
                   /\ res'[r][1].body = [message |-> "User registered successfully!"]
             /\ (C28_AnsweredNow(r, 400) \/ C28_AnsweredNow(r, 500)) => users' = users
       /\ users' # users => \E r \in Reqs : C28_AnsweredNow(r, 201)]_vars

\* one signup was answered 201 and one 500; the only Account is the first one's
C28_OneCreatedOneFailed ==
    \E r, q \in Reqs :
        /\ IsSignup(r) /\ Answered(r, 201, MsgRegistered)
        /\ IsSignup(q) /\ Answered(q, 500, MsgSignupError)
        /\ Len(users) = 1
        /\ users[1].username = req[r].body.username
        /\ users[1].email = req[r].body.email

-----------------------------------------------------------------------------
(* C29: GET /api/appointments answered by a reachable store is answered 200
   with the whole Appointment collection as it is at the read, unfiltered:
   every Appointment whose POST was already answered 201 is in the result,
   and nothing is in it that a successful POST did not store. *)

\* the read of r's GET /api/appointments is answered by the store in this step
C29_ReadAnswered(r) ==
    pc[r] = "appointments:find" /\ pc'[r] = "done" /\ ReadyState = 1

\* the documents returned to the POST /api/appointments answered 201 so far
C29_Created ==
    {Answer(q).body : q \in {x \in Reqs : /\ req[x].route = "POST /api/appointments"
                                          /\ Done(x)
                                          /\ Answer(x).status = 201}}

\* C29: the read is answered 200 with the collection as it is, which holds
\* exactly the appointments created so far
C29_ReadsWholeCollection ==
    [][\A r \in Reqs :
          C29_ReadAnswered(r) =>
              /\ res'[r] = <<[status |-> 200, body |-> [array |-> appointments]]>>
              /\ {appointments[i] : i \in 1..Len(appointments)} = C29_Created]_vars

\* an appointment with status "Completed" was created and a later
\* GET /api/appointments returned it
C29_CreatedThenListed ==
    \E r, q \in Reqs :
        /\ q < r
        /\ req[q].route = "POST /api/appointments"
        /\ Done(q) /\ Answer(q).status = 201
        /\ Answer(q).body.status = "Completed"
        /\ req[r].route = "GET /api/appointments"
        /\ Done(r) /\ Answer(r).status = 200
        /\ Answer(r).body.array = <<Answer(q).body>>

-----------------------------------------------------------------------------
(* C30: a non-admin login is answered 500 only when its store lookup fails:
   whenever the lookup succeeds the answer is 200 or 401 for every request
   body, a body with an existing email and no password included, which is
   answered 401. *)

\* r is a login other than the admin shortcut whose lookup the store answered
C30_LookupSucceeded(r) ==
    /\ IsLogin(r)
    /\ ~IsAdminLogin(req[r].body)
    /\ Done(r)
    /\ StoreAnswered(r)

\* C30: a non-admin login whose lookup succeeded is answered 200 or 401
C30_No500AfterLookup ==
    \A r \in Reqs :
        C30_LookupSucceeded(r) =>
            /\ Len(res[r]) = 1
            /\ Answer(r).status \in {200, 401}
            /\ (req[r].body.password = Undefined) => Answer(r).status = 401

====
